---- MODULE Spec2Model ----
(***************************************************************************)
(* Model of TransceiverMap (src/src/map/index.ts, first class body, lines  *)
(* 42-373) and of the abstract Client (src/src/map/clients/client.ts).     *)
(*                                                                         *)
(* Strings are sequences of UTF-16 code units, so that toLowerCase,        *)
(* String.prototype.includes and the < comparison of the sort callbacks    *)
(* are computed and not assumed.  Geographic positions are points of a     *)
(* line and map.distance is the distance on that line.                     *)
(***************************************************************************)
EXTENDS Integers, Sequences, FiniteSets, TLC

VARIABLES
    clients,            \* this.clients: callsign -> Client
    keyOrder,           \* property order of this.clients (Object.keys / Object.values)
    filteredCallsigns,  \* this.filteredCallsigns (the ?callsign= query arguments)
    ringSearchTerm,     \* this.ringSearchTerm
    isInitialLoad,      \* this.isInitialLoad
    mapLayers,          \* layers (markers, circles) currently added to this.map
    view,               \* this.map's centre and zoom
    inflight,           \* reloadMapData calls suspended at their await, in start order
    onlineCount,        \* #online-count
    clientList,         \* #client-list: callsigns of the entries, in order
    inRangeList,        \* #in-range-list: <<subject, in-range callsigns>> groups
    lastOp,             \* the handler that ran last, with its input
    destroyed,          \* instances whose destroy() ran during that handler
    threw,              \* that handler ended by throwing
    running,            \* the reloadMapData call that is between its upserts and its end:
                        \* how far it is, and the data.clients it works on
    newest              \* the most recently started reloadMapData call: whether its
                        \* response was processed, and the identifiers it carried

vars == <<clients, keyOrder, filteredCallsigns, ringSearchTerm, isInitialLoad,
          mapLayers, view, inflight, onlineCount, clientList, inRangeList,
          lastOp, destroyed, threw, running, newest>>

-----------------------------------------------------------------------------
(* Bounds of the model *)

\* most reloadMapData calls suspended at their await at one time
MaxInFlight == 2

-----------------------------------------------------------------------------
(* Program constants *)

\* zoom: 2 of the L.map options
InitialZoom == 2

\* if (zoom < 3) zoom = 3
MinClickZoom == 3

-----------------------------------------------------------------------------
(* Strings *)

csA == <<65>>
csB == <<66>>
csAB == <<65, 66>>

Callsigns == {csA, csB, csAB}

\* String.prototype.toLowerCase: A-Z (65..90) are moved to a-z (97..122)
ToLower(s) ==
    [i \in 1..Len(s) |-> IF s[i] \in 65..90 THEN s[i] + 32 ELSE s[i]]

\* String.prototype.includes
Includes(s, t) ==
    \E i \in 0..(Len(s) - Len(t)) : SubSeq(s, i + 1, i + Len(t)) = t

\* a < b on strings: lexicographic by code unit
RECURSIVE StrLess(_, _)
StrLess(a, b) ==
    IF b = <<>> THEN FALSE
    ELSE IF a = <<>> THEN TRUE
    ELSE IF Head(a) # Head(b) THEN Head(a) < Head(b)
    ELSE StrLess(Tail(a), Tail(b))

\* the comparator of the two sort calls: -1, 1 or 0
CompareCallsigns(a, b) ==
    IF StrLess(a, b) THEN -1 ELSE IF StrLess(b, a) THEN 1 ELSE 0

\* Array.prototype.sort with that comparator (stable), on callsigns
RECURSIVE InsertSorted(_, _)
InsertSorted(sorted, c) ==
    IF sorted = <<>> THEN <<c>>
    ELSE IF CompareCallsigns(c, Head(sorted)) < 0 THEN <<c>> \o sorted
    ELSE <<Head(sorted)>> \o InsertSorted(Tail(sorted), c)

RECURSIVE SortCallsigns(_)
SortCallsigns(s) ==
    IF s = <<>> THEN <<>>
    ELSE InsertSorted(SortCallsigns(SubSeq(s, 1, Len(s) - 1)), s[Len(s)])

Range(s) == {s[i] : i \in 1..Len(s)}

-----------------------------------------------------------------------------
(* Snapshot records (ClientData) *)

Ring(center, radius) == [center |-> center, radius |-> radius]

ClientData(callsign, type, pos, rings) ==
    [callsign |-> callsign, type |-> type, pos |-> pos, rings |-> rings]

\* The records a response may carry: a pilot with two rings or with none, a
\* callsign that is a pilot with a ring of radius 0 or a controller, and a
\* pilot whose ring reaches both others.
Records ==
    { ClientData(csA,  "PILOT", 0, <<Ring(0, 1), Ring(1, 1)>>),
      ClientData(csA,  "PILOT", 0, <<>>),
      ClientData(csB,  "PILOT", 1, <<Ring(1, 0)>>),
      ClientData(csB,  "ATC",   0, <<Ring(0, 2)>>),
      ClientData(csAB, "PILOT", 1, <<Ring(1, 1)>>) }

\* data.clients of a response: any sequence of records, each callsign at most
\* once (the source lists every connected client once)
Snapshots ==
    { data \in UNION { [1..n -> Records] : n \in 0..Cardinality(Callsigns) } :
        \A i, j \in DOMAIN data : data[i].callsign = data[j].callsign => i = j }

\* the values of ?callsign= the page may be opened with
AllowLists == { <<>>, <<csA, csAB>> }

\* the texts typed into #ring-search
SearchInputs == { <<>>, <<66>> }

-----------------------------------------------------------------------------
(* Leaflet: layers and distance *)

\* the marker or circle object an instance owns under a key of its
\* markers / rangeRings record
Layer(inst, kind, key) == <<inst, kind, key>>

\* this.map.distance(a, b)
Distance(a, b) == IF a < b THEN b - a ELSE a - b

-----------------------------------------------------------------------------
(* Client (clients/client.ts) *)

MarkerLayers(client) == { Layer(client.inst, "marker", k) : k \in DOMAIN client.markers }
RingLayers(client) == { Layer(client.inst, "ring", k) : k \in DOMAIN client.rangeRings }

\* new of a concrete Client: markers = {}, rangeRings = {}
NewClient(inst, clientData) ==
    [inst |-> inst, clientData |-> clientData, markers |-> <<>>, rangeRings |-> <<>>]

\* upsertMarkers(map): one marker at the position, created and added to the
\* map if absent, moved if present
UpsertMarkers(client, layers) ==
    [client |-> [client EXCEPT !.markers = <<client.clientData.pos>>],
     layers |-> IF client.markers = <<>>
                THEN layers \cup {Layer(client.inst, "marker", 1)}
                ELSE layers]

\* upsertRangeRings(map): one circle per ring of the data; a circle is created
\* and added to the map if absent, moved and resized if present, and removed
\* from the map if the data no longer has it
UpsertRangeRings(client, layers) ==
    LET old == client.rangeRings
        new == client.clientData.rings
        created == { Layer(client.inst, "ring", k) : k \in (DOMAIN new) \ (DOMAIN old) }
        stale == { Layer(client.inst, "ring", k) : k \in (DOMAIN old) \ (DOMAIN new) }
    IN  [client |-> [client EXCEPT !.rangeRings = new],
         layers |-> (layers \ stale) \cup created]

\* update(map, clientData)
ClientUpdate(client, layers, clientData) ==
    LET m == UpsertMarkers([client EXCEPT !.clientData = clientData], layers)
    IN  UpsertRangeRings(m.client, m.layers)

\* destroy that takes the markers off the map and forgets the rings on it
ClientDestroyLeavingRings(client, layers) ==
    [client |-> [client EXCEPT !.markers = <<>>, !.rangeRings = <<>>],
     layers |-> layers \ MarkerLayers(client)]

\* destroy that takes everything off the map and keeps its record of the rings
ClientDestroyKeepingRecords(client, layers) ==
    [client |-> [client EXCEPT !.markers = <<>>],
     layers |-> (layers \ MarkerLayers(client)) \ RingLayers(client)]

\* destroy()
ClientDestroy(client, layers) ==
    [client |-> [client EXCEPT !.markers = <<>>, !.rangeRings = <<>>],
     layers |-> (layers \ MarkerLayers(client)) \ RingLayers(client)]

\* callsign()
ClientCallsign(client) == client.clientData.callsign

\* position()
ClientPosition(client) == client.clientData.pos

-----------------------------------------------------------------------------
(* TransceiverMap: the Registry *)

\* A registry state threaded through the loops of reloadMapData:
\* [clients, keyOrder, mapLayers, destroyed]
Registry(cl, order, layers, dest) ==
    [clients |-> cl, keyOrder |-> order, mapLayers |-> layers, destroyed |-> dest]

\* the identity of a newly constructed object: the callsign it is built for
\* and a serial no Client that is live, or was destroyed in this handler, has
FreshInst(st, callsign) ==
    LET taken == { st.clients[k].inst : k \in DOMAIN st.clients } \cup Range(st.destroyed)
    IN  CHOOSE inst \in { <<callsign, n>> : n \in 0..Cardinality(taken) } :
            /\ inst \notin taken
            /\ \A m \in 0..(inst[2] - 1) : <<callsign, m>> \in taken

\* instantiateClient(clientData), with the click callback set
InstantiateClient(st, clientData) ==
    NewClient(FreshInst(st, clientData.callsign), clientData)

\* this.clients[callsign] = client
PutClient(cl, callsign, client) ==
    [k \in (DOMAIN cl) \cup {callsign} |-> IF k = callsign THEN client ELSE cl[k]]

\* upsertClient without the lookup: a Client is constructed for every record
UpsertClientAlwaysNew(st, clientData) ==
    LET callsign == clientData.callsign
        known == callsign \in DOMAIN st.clients
        u == ClientUpdate(InstantiateClient(st, clientData), st.mapLayers, clientData)
    IN  Registry(PutClient(st.clients, callsign, u.client),
                 IF known THEN st.keyOrder ELSE Append(st.keyOrder, callsign),
                 u.layers,
                 st.destroyed)

\* upsertClient(clientData)
UpsertClient(st, clientData) ==
    LET callsign == clientData.callsign
        known == callsign \in DOMAIN st.clients
        client == IF known THEN st.clients[callsign] ELSE InstantiateClient(st, clientData)
        u == ClientUpdate(client, st.mapLayers, clientData)
    IN  Registry(PutClient(st.clients, callsign, u.client),
                 IF known THEN st.keyOrder ELSE Append(st.keyOrder, callsign),
                 u.layers,
                 st.destroyed)

\* Skipped with the negation of includes lost
SkippedWithoutNot(allow, clientData) ==
    Len(allow) > 0 /\ clientData.callsign \in Range(allow)

\* the test of the upsert loop: the record is skipped (continue)
Skipped(allow, clientData) ==
    Len(allow) > 0 /\ clientData.callsign \notin Range(allow)

\* for (const client of data.clients) { ... this.upsertClient(client) }
RECURSIVE UpsertLoop(_, _, _)
UpsertLoop(st, allow, data) ==
    IF data = <<>> THEN st
    ELSE UpsertLoop(IF Skipped(allow, Head(data)) THEN st ELSE UpsertClient(st, Head(data)),
                    allow, Tail(data))

\* the kinds instantiateClient builds a Client for
KnownKinds == {"PILOT", "ATC"}

\* instantiateClient throws: a record that has no Client yet, of a kind the
\* factory has no variant for
InstantiateThrows(st, clientData) ==
    clientData.callsign \notin DOMAIN st.clients /\ clientData.type \notin KnownKinds

\* the index of the record at which the upsert loop throws, from record i on;
\* 0 if it runs to its end
RECURSIVE ThrowIndex(_, _, _, _)
ThrowIndex(st, allow, data, i) ==
    IF i > Len(data) THEN 0
    ELSE IF Skipped(allow, data[i]) THEN ThrowIndex(st, allow, data, i + 1)
    ELSE IF InstantiateThrows(st, data[i]) THEN i
    ELSE ThrowIndex(UpsertClient(st, data[i]), allow, data, i + 1)

\* findDisconnectedClients with the negation of includes lost
FindConnectedClients(st, clientsData) ==
    LET newCallsigns == [i \in 1..Len(clientsData) |-> clientsData[i].callsign]
    IN  SelectSeq(st.keyOrder, LAMBDA c : c \in Range(newCallsigns))

\* findDisconnectedClients(clientsData)
FindDisconnectedClients(st, clientsData) ==
    LET newCallsigns == [i \in 1..Len(clientsData) |-> clientsData[i].callsign]
    IN  SelectSeq(st.keyOrder, LAMBDA c : c \notin Range(newCallsigns))

\* removeClient without the delete
RemoveClientKeepsKey(st, callsign) ==
    LET d == ClientDestroy(st.clients[callsign], st.mapLayers)
    IN  Registry(PutClient(st.clients, callsign, d.client),
                 st.keyOrder,
                 d.layers,
                 Append(st.destroyed, st.clients[callsign].inst))

\* removeClient(callsign): destroy, then delete
RemoveClient(st, callsign) ==
    LET d == ClientDestroy(st.clients[callsign], st.mapLayers)
    IN  Registry([k \in (DOMAIN st.clients) \ {callsign} |-> st.clients[k]],
                 SelectSeq(st.keyOrder, LAMBDA c : c # callsign),
                 d.layers,
                 Append(st.destroyed, st.clients[callsign].inst))

\* removeClients(callsigns)
RECURSIVE RemoveClients(_, _)
RemoveClients(st, callsigns) ==
    IF callsigns = <<>> THEN st
    ELSE RemoveClients(RemoveClient(st, Head(callsigns)), Tail(callsigns))

\* the upsert loop followed by removeClients(findDisconnectedClients(...))
Reconcile(st, allow, data) ==
    LET up == UpsertLoop(st, allow, data)
    IN  RemoveClients(up, FindDisconnectedClients(up, data))

\* Object.values(this.clients)
ClientValues(cl, order) == [i \in 1..Len(order) |-> cl[order[i]]]

-----------------------------------------------------------------------------
(* TransceiverMap: range report and filter *)

\* the ring loop with < in place of <=
RECURSIVE RingLoopStrict(_, _, _)
RingLoopStrict(pilotsInRange, otherPilot, rings) ==
    IF rings = <<>> THEN pilotsInRange
    ELSE IF Distance(Head(rings).center, ClientPosition(otherPilot)) < Head(rings).radius
         THEN Append(pilotsInRange, otherPilot)
         ELSE RingLoopStrict(pilotsInRange, otherPilot, Tail(rings))

\* the ring loop of findPilotsInRange for one other pilot: the first ring that
\* has it in range pushes it, and the loop breaks
RECURSIVE RingLoop(_, _, _)
RingLoop(pilotsInRange, otherPilot, rings) ==
    IF rings = <<>> THEN pilotsInRange
    ELSE IF Distance(Head(rings).center, ClientPosition(otherPilot)) <= Head(rings).radius
         THEN Append(pilotsInRange, otherPilot)
         ELSE RingLoop(pilotsInRange, otherPilot, Tail(rings))

\* the loop over otherPilots taking a pilot also when one of that pilot's own
\* rings reaches the subject
RECURSIVE OtherPilotsLoopEitherWay(_, _, _)
OtherPilotsLoopEitherWay(pilotsInRange, pilot, otherPilots) ==
    IF otherPilots = <<>> THEN pilotsInRange
    ELSE LET otherPilot == Head(otherPilots)
             hit == \/ RingLoop(<<>>, otherPilot, pilot.rangeRings) # <<>>
                    \/ RingLoop(<<>>, pilot, otherPilot.rangeRings) # <<>>
         IN  OtherPilotsLoopEitherWay(IF hit THEN Append(pilotsInRange, otherPilot)
                                             ELSE pilotsInRange,
                                      pilot, Tail(otherPilots))

\* the loop over otherPilots
RECURSIVE OtherPilotsLoop(_, _, _)
OtherPilotsLoop(pilotsInRange, pilot, otherPilots) ==
    IF otherPilots = <<>> THEN pilotsInRange
    ELSE OtherPilotsLoop(RingLoop(pilotsInRange, Head(otherPilots), pilot.rangeRings),
                         pilot, Tail(otherPilots))

\* the candidates of findPilotsInRange
OtherPilots(cl, order, pilot) ==
    SelectSeq(ClientValues(cl, order),
              LAMBDA c : c.clientData.type = "PILOT"
                         /\ ClientCallsign(c) # ClientCallsign(pilot))

\* the result returned without the sort
Unsorted(pilotsInRange) ==
    [i \in 1..Len(pilotsInRange) |-> ClientCallsign(pilotsInRange[i])]

\* pilotsInRange.sort(...), as the callsigns of the sorted clients
SortByCallsign(pilotsInRange) ==
    SortCallsigns([i \in 1..Len(pilotsInRange) |-> ClientCallsign(pilotsInRange[i])])

\* findPilotsInRange(pilot): the callsigns of the result, in order
FindPilotsInRange(cl, order, pilot) ==
    SortByCallsign(OtherPilotsLoop(<<>>, pilot, OtherPilots(cl, order, pilot)))

\* the pilots setInRangeList reports on
ReportedPilots(cl, order, term) ==
    LET pilots == SelectSeq(ClientValues(cl, order), LAMBDA c : c.clientData.type = "PILOT")
    IN  IF term # <<>>
        THEN SelectSeq(pilots, LAMBDA p : Includes(ToLower(ClientCallsign(p)), term))
        ELSE pilots

\* setInRangeList with the search term applied to the in-range lists as well
SetInRangeListFilteringLists(cl, order, term) ==
    LET pilots == ReportedPilots(cl, order, term)
    IN  [i \in 1..Len(pilots) |->
            [pilot |-> ClientCallsign(pilots[i]),
             pilotsInRange |->
                 SelectSeq(FindPilotsInRange(cl, order, pilots[i]),
                           LAMBDA c : Includes(ToLower(c), term))]]

\* setInRangeList(): the range groups written to #in-range-list
\* (<<>> stands for "No pilots online")
SetInRangeList(cl, order, term) ==
    LET pilots == ReportedPilots(cl, order, term)
    IN  [i \in 1..Len(pilots) |->
            [pilot |-> ClientCallsign(pilots[i]),
             pilotsInRange |-> FindPilotsInRange(cl, order, pilots[i])]]

\* setClientList(): the entries written to #client-list
SetClientList(cl, order) ==
    SortCallsigns([i \in 1..Len(order) |-> ClientValues(cl, order)[i].clientData.callsign])

\* filterRangeRings(): every ring of every client is added to the map or
\* removed from it
FilterRangeRings(cl, term, layers) ==
    LET shown == UNION { IF Includes(ToLower(ClientCallsign(cl[k])), term) \/ term = <<>>
                         THEN RingLayers(cl[k]) ELSE {} : k \in DOMAIN cl }
        hidden == UNION { IF Includes(ToLower(ClientCallsign(cl[k])), term) \/ term = <<>>
                          THEN {} ELSE RingLayers(cl[k]) : k \in DOMAIN cl }
    IN  (layers \ hidden) \cup shown

-----------------------------------------------------------------------------
(* The handlers *)

Op(kind, ids, callsign) == [kind |-> kind, ids |-> ids, callsign |-> callsign]

\* the state after the constructor: the startup reloadMapData is suspended at
\* its fetch
Init ==
    /\ clients = <<>>
    /\ keyOrder = <<>>
    /\ filteredCallsigns \in AllowLists
    /\ ringSearchTerm = <<>>
    /\ isInitialLoad = TRUE
    /\ mapLayers = {}
    /\ view = [center |-> 0, zoom |-> InitialZoom]
    /\ inflight = 1
    /\ onlineCount = 0
    /\ clientList = <<>>
    /\ inRangeList = <<>>
    /\ lastOp = Op("constructor", {}, <<>>)
    /\ destroyed = <<>>
    /\ threw = FALSE
    /\ running = [pc |-> "idle", data |-> <<>>]
    /\ newest = [done |-> FALSE, ok |-> FALSE, ids |-> {}]

\* the setInterval callback: reloadMapData runs up to its await
Tick ==
    /\ inflight < MaxInFlight
    /\ inflight' = inflight + 1
    /\ lastOp' = Op("tick", {}, <<>>)
    /\ destroyed' = <<>>
    /\ threw' = FALSE
    /\ UNCHANGED <<clients, keyOrder, filteredCallsigns, ringSearchTerm, isInitialLoad,
                   mapLayers, view, onlineCount, clientList, inRangeList>>

\* reloadMapData from the resolution of its awaits to its end, on data.clients.
\* Nothing catches inside it: when instantiateClient throws on a record, the
\* records before it have been upserted and nothing after the throw runs.
ReloadMapData(data) ==
    /\ inflight > 0
    /\ LET st0 == Registry(clients, keyOrder, mapLayers, <<>>)
           at == ThrowIndex(st0, filteredCallsigns, data, 1)
       IN  IF at = 0
           THEN \E st \in { Reconcile(st0, filteredCallsigns, data) } :
                    /\ clients' = st.clients
                    /\ keyOrder' = st.keyOrder
                    /\ mapLayers' = st.mapLayers
                    /\ destroyed' = st.destroyed
                    /\ onlineCount' = Len(st.keyOrder)
                    /\ clientList' = SetClientList(st.clients, st.keyOrder)
                    /\ inRangeList' = SetInRangeList(st.clients, st.keyOrder, ringSearchTerm)
                    /\ isInitialLoad' = FALSE
                    /\ threw' = FALSE
                    /\ lastOp' = Op("reload", {data[i].callsign : i \in 1..Len(data)}, <<>>)
           ELSE \E st \in { UpsertLoop(st0, filteredCallsigns, SubSeq(data, 1, at - 1)) } :
                    /\ clients' = st.clients
                    /\ keyOrder' = st.keyOrder
                    /\ mapLayers' = st.mapLayers
                    /\ destroyed' = st.destroyed
                    /\ threw' = TRUE
                    /\ lastOp' = Op("reloadThrew", {data[i].callsign : i \in 1..Len(data)}, <<>>)
                    /\ UNCHANGED <<onlineCount, clientList, inRangeList, isInitialLoad>>
    /\ inflight' = inflight - 1
    /\ UNCHANGED <<filteredCallsigns, ringSearchTerm, view>>

\* reloadMapData when fetch or response.json() rejects, or the body has no
\* clients array: the call ends by throwing before its loop
ReloadFailed ==
    /\ inflight > 0
    /\ inflight' = inflight - 1
    /\ lastOp' = Op("reloadFailed", {}, <<>>)
    /\ destroyed' = <<>>
    /\ threw' = TRUE
    /\ UNCHANGED <<clients, keyOrder, filteredCallsigns, ringSearchTerm, isInitialLoad,
                   mapLayers, view, onlineCount, clientList, inRangeList>>

\* the input listener without the call of setInRangeList
RingSearchInputWithoutReport(value) ==
    /\ ringSearchTerm' = ToLower(value)
    /\ mapLayers' = FilterRangeRings(clients, ringSearchTerm', mapLayers)
    /\ lastOp' = Op("input", {}, <<>>)
    /\ destroyed' = <<>>
    /\ threw' = FALSE
    /\ UNCHANGED <<clients, keyOrder, filteredCallsigns, isInitialLoad, view, inflight,
                   onlineCount, clientList, inRangeList>>

\* the input listener filtering by removal: the Entities that do not match the
\* term are removed from the Registry instead of having their rings hidden
RingSearchInputRemovingOthers(value) ==
    /\ ringSearchTerm' = ToLower(value)
    /\ LET others == SelectSeq(keyOrder, LAMBDA k :
                         ~(ringSearchTerm' = <<>> \/ Includes(ToLower(k), ringSearchTerm')))
           st == RemoveClients(Registry(clients, keyOrder, mapLayers, <<>>), others)
       IN  /\ clients' = st.clients
           /\ keyOrder' = st.keyOrder
           /\ mapLayers' = st.mapLayers
           /\ destroyed' = st.destroyed
           /\ inRangeList' = SetInRangeList(st.clients, st.keyOrder, ringSearchTerm')
    /\ lastOp' = Op("input", {}, <<>>)
    /\ threw' = FALSE
    /\ UNCHANGED <<filteredCallsigns, isInitialLoad, view, inflight, onlineCount, clientList>>

\* the input listener of #ring-search
RingSearchInput(value) ==
    /\ ringSearchTerm' = ToLower(value)
    /\ mapLayers' = FilterRangeRings(clients, ringSearchTerm', mapLayers)
    /\ inRangeList' = SetInRangeList(clients, keyOrder, ringSearchTerm')
    /\ lastOp' = Op("input", {}, <<>>)
    /\ destroyed' = <<>>
    /\ threw' = FALSE
    /\ UNCHANGED <<clients, keyOrder, filteredCallsigns, isInitialLoad, view, inflight,
                   onlineCount, clientList>>

\* clientClicked with the search term taken from the callsign as it is written
ClientClickedKeepingCase(callsign) ==
    /\ IF callsign \notin DOMAIN clients
       THEN UNCHANGED <<ringSearchTerm, mapLayers, inRangeList, view>>
       ELSE /\ view' = [center |-> ClientPosition(clients[callsign]),
                        zoom |-> IF view.zoom < MinClickZoom THEN MinClickZoom
                                 ELSE view.zoom]
            /\ ringSearchTerm' = callsign
            /\ mapLayers' = FilterRangeRings(clients, ringSearchTerm', mapLayers)
            /\ inRangeList' = SetInRangeList(clients, keyOrder, ringSearchTerm')
    /\ lastOp' = Op("click", {}, callsign)
    /\ destroyed' = <<>>
    /\ threw' = FALSE
    /\ UNCHANGED <<clients, keyOrder, filteredCallsigns, isInitialLoad, inflight,
                   onlineCount, clientList>>

\* clientClicked(callsign)
ClientClicked(callsign) ==
    /\ IF callsign \notin DOMAIN clients
       THEN UNCHANGED <<ringSearchTerm, mapLayers, inRangeList, view>>
       ELSE /\ view' = [center |-> ClientPosition(clients[callsign]),
                        zoom |-> IF view.zoom < MinClickZoom THEN MinClickZoom
                                 ELSE view.zoom]
            /\ ringSearchTerm' = ToLower(callsign)
            /\ mapLayers' = FilterRangeRings(clients, ringSearchTerm', mapLayers)
            /\ inRangeList' = SetInRangeList(clients, keyOrder, ringSearchTerm')
    /\ lastOp' = Op("click", {}, callsign)
    /\ destroyed' = <<>>
    /\ threw' = FALSE
    /\ UNCHANGED <<clients, keyOrder, filteredCallsigns, isInitialLoad, inflight,
                   onlineCount, clientList>>

\* The handlers on well-formed snapshots, each run to its end in one step (see
\* SpecSteps for the statements of reloadMapData one after the other); the
\* order of the requests is not followed here (see SpecOrder).
Next ==
    \/ Tick /\ UNCHANGED <<newest, running>>
    \/ \E data \in Snapshots : ReloadMapData(data) /\ UNCHANGED <<newest, running>>
    \/ ReloadFailed /\ UNCHANGED <<newest, running>>
    \/ \E value \in SearchInputs : RingSearchInput(value) /\ UNCHANGED <<newest, running>>
    \/ \E callsign \in Callsigns : ClientClicked(callsign) /\ UNCHANGED <<newest, running>>

Spec == Init /\ [][Next]_vars

-----------------------------------------------------------------------------
(* The Registry after a reconcile *)

\* the identifiers of a snapshot that pass the allow-list
FilteredIds(ids, allow) ==
    IF allow = <<>> THEN ids ELSE { id \in ids : \E i \in DOMAIN allow : allow[i] = id }

\* how often inst occurs in the log
Occurrences(log, inst) == Cardinality({ i \in DOMAIN log : log[i] = inst })

RingsOnMap(client) == RingLayers(client) \cap mapLayers

\* C1: when reloadMapData has run on a snapshot, the keys of the Registry are
\* exactly the identifiers of that snapshot that pass the allow-list (all of
\* them when the allow-list is empty), whatever the Registry held before.
C1_RegistryEqualsFilteredSnapshot ==
    lastOp.kind = "reload" =>
        DOMAIN clients = FilteredIds(lastOp.ids, filteredCallsigns)

\* a reload under an allow-list that dropped a record, kept an Entity and
\* removed another
C1_Witness ==
    /\ lastOp.kind = "reload"
    /\ filteredCallsigns # <<>>
    /\ FilteredIds(lastOp.ids, filteredCallsigns) # lastOp.ids
    /\ DOMAIN clients # {}
    /\ destroyed # <<>>

\* C2: with a non-empty allow-list no identifier outside it is ever a key of
\* the Registry.
C2_AllowListExclusive ==
    filteredCallsigns # <<>> =>
        \A id \in DOMAIN clients : \E i \in DOMAIN filteredCallsigns : filteredCallsigns[i] = id

\* a snapshot with two identifiers, one outside the allow-list, was reloaded
C2_Witness ==
    /\ filteredCallsigns # <<>>
    /\ lastOp.kind = "reload"
    /\ Cardinality(lastOp.ids) = 2
    /\ Cardinality(DOMAIN clients) = 1

\* C3: an identifier that is in the Registry before a reload and in the
\* filtered snapshot is bound to the same instance afterwards, and destroy was
\* not invoked on that instance during the reload.
C3_SurvivorsKeepInstance ==
    [][ lastOp'.kind = "reload" =>
            \A id \in (DOMAIN clients) \cap FilteredIds(lastOp'.ids, filteredCallsigns) :
                /\ id \in DOMAIN clients'
                /\ clients'[id].inst = clients[id].inst
                /\ Occurrences(destroyed', clients[id].inst) = 0 ]_vars

\* after a reload an Entity still has a ring that an earlier search removed
\* from the map: it was in the Registry before the reload and was updated, not
\* rebuilt, while another Entity was destroyed
C3_Witness ==
    /\ lastOp.kind = "reload"
    /\ destroyed # <<>>
    /\ \E id \in DOMAIN clients :
           /\ RingLayers(clients[id]) # {}
           /\ RingsOnMap(clients[id]) = {}

\* C4: an identifier that is in the Registry before a reload and not in the
\* snapshot has destroy invoked on its Entity exactly once during the reload
\* and is absent from the Registry afterwards.
C4_DisconnectedDestroyedOnce ==
    [][ lastOp'.kind = "reload" =>
            \A id \in (DOMAIN clients) \ lastOp'.ids :
                /\ id \notin DOMAIN clients'
                /\ Occurrences(destroyed', clients[id].inst) = 1 ]_vars

\* a reload destroyed two Entities and kept a third
C4_Witness ==
    /\ lastOp.kind = "reload"
    /\ Len(destroyed) = 2
    /\ Cardinality(DOMAIN clients) = 1

\* C5: a refresh whose fetch fails or returns an empty result leaves the
\* Registry as it was: no Entity is added, removed or destroyed by it.
C5_FailedOrEmptyFetchChangesNothing ==
    [][ (lastOp'.kind = "reloadFailed" \/ (lastOp'.kind = "reload" /\ lastOp'.ids = {})) =>
            /\ clients' = clients
            /\ keyOrder' = keyOrder
            /\ destroyed' = <<>> ]_vars

\* C6: at most one refresh (fetch followed by reconcile) is in flight at any
\* time: a tick that fires before the previous refresh has completed starts
\* no second one.
C6_OneRefreshInFlight == inflight <= 1

-----------------------------------------------------------------------------
(* The range report and the filter *)

\* the identifiers the specification puts in range of subject k: Broadcasting,
\* in the Registry, not k, and within the radius of some ring of k
InRangeSet(k) ==
    { id \in DOMAIN clients :
        /\ clients[id].clientData.type = "PILOT"
        /\ id # k
        /\ \E r \in DOMAIN clients[k].rangeRings :
               Distance(clients[k].rangeRings[r].center, clients[id].clientData.pos)
                   <= clients[k].rangeRings[r].radius }

RingsAround(k, id) ==
    { r \in DOMAIN clients[k].rangeRings :
        Distance(clients[k].rangeRings[r].center, clients[id].clientData.pos)
            <= clients[k].rangeRings[r].radius }

Matches(id, term) == term = <<>> \/ Includes(ToLower(id), term)

\* C7: for every subject in the Registry findPilotsInRange holds exactly the
\* Broadcasting Entities of the Registry, other than the subject, whose
\* position is within the radius of at least one ring of the subject; a subject
\* with no rings yields the empty sequence.
C7_InRangeExactly ==
    \A k \in DOMAIN clients :
        LET result == FindPilotsInRange(clients, keyOrder, clients[k])
        IN  /\ Range(result) = InRangeSet(k)
            /\ clients[k].rangeRings = <<>> => result = <<>>

\* a subject with a pilot exactly at the radius of its ring and a controller
\* inside the ring, beside a pilot that has no ring
C7_Witness ==
    /\ \E k \in DOMAIN clients :
           /\ \E id \in InRangeSet(k) : \E r \in RingsAround(k, id) :
                  Distance(clients[k].rangeRings[r].center, clients[id].clientData.pos)
                      = clients[k].rangeRings[r].radius
           /\ \E id \in DOMAIN clients :
                  clients[id].clientData.type # "PILOT" /\ RingsAround(k, id) # {}
    /\ \E k \in DOMAIN clients :
           clients[k].clientData.type = "PILOT" /\ clients[k].rangeRings = <<>>

\* C8: findPilotsInRange returns its result in strictly ascending order of
\* identifier, every in-range Entity once, whatever the insertion order of the
\* Registry and however many rings of the subject hold the Entity.
C8_ResultStrictlyAscending ==
    \A k \in DOMAIN clients :
        LET result == FindPilotsInRange(clients, keyOrder, clients[k])
        IN  \A i \in 1..(Len(result) - 1) : StrLess(result[i], result[i + 1])

\* a subject with two Entities in range, each inside two of its rings, that
\* were inserted into the Registry in descending order
C8_Witness ==
    \E k \in DOMAIN clients :
        /\ Cardinality(InRangeSet(k)) = 2
        /\ \A id \in InRangeSet(k) : Cardinality(RingsAround(k, id)) = 2
        /\ \E i, j \in DOMAIN keyOrder :
               /\ i < j
               /\ {keyOrder[i], keyOrder[j]} = InRangeSet(k)
               /\ StrLess(keyOrder[j], keyOrder[i])

\* C9: whenever a handler has completed, every ring of every Entity of the
\* Registry is on the map if the search term is empty or the identifier
\* contains it case-insensitively, and off the map otherwise.
C9_RingVisibilityFollowsTerm ==
    \A k \in DOMAIN clients :
        IF Matches(k, ringSearchTerm)
        THEN RingLayers(clients[k]) \subseteq mapLayers
        ELSE RingLayers(clients[k]) \cap mapLayers = {}

\* C10: the subjects of the range report are exactly the Broadcasting Entities
\* of the Registry whose identifier contains the search term
\* case-insensitively (all of them when the term is empty), and the list
\* reported for a subject is findPilotsInRange of it, whether or not its members
\* match the term.
C10_ReportSubjectsAndLists ==
    /\ \A i, j \in DOMAIN inRangeList :
           inRangeList[i].pilot = inRangeList[j].pilot => i = j
    /\ { inRangeList[i].pilot : i \in DOMAIN inRangeList }
           = { id \in DOMAIN clients :
                   clients[id].clientData.type = "PILOT" /\ Matches(id, ringSearchTerm) }
    /\ \A i \in DOMAIN inRangeList :
           /\ inRangeList[i].pilotsInRange
                  = FindPilotsInRange(clients, keyOrder, clients[inRangeList[i].pilot])
           /\ Range(inRangeList[i].pilotsInRange) = InRangeSet(inRangeList[i].pilot)

\* under a non-empty term one pilot is left out of the subjects, and a
\* reported list holds an Entity that does not match the term
C10_Witness ==
    /\ ringSearchTerm # <<>>
    /\ \E id \in DOMAIN clients :
           /\ clients[id].clientData.type = "PILOT"
           /\ \A i \in DOMAIN inRangeList : inRangeList[i].pilot # id
    /\ \E i \in DOMAIN inRangeList :
           \E id \in Range(inRangeList[i].pilotsInRange) : ~Matches(id, ringSearchTerm)

\* ---------------------------------------------------------------------------
\* The second TransceiverMap class body of index.ts (lines 375-586). It has no
\* range report and its clientClicked neither checks the lookup nor touches the
\* search term.

\* reloadMapData of the second class body, from the resolution of its awaits
LegacyReloadMapData(data) ==
    /\ inflight > 0
    /\ LET st0 == Registry(clients, keyOrder, mapLayers, <<>>)
           at == ThrowIndex(st0, filteredCallsigns, data, 1)
       IN  IF at = 0
           THEN \E st \in { Reconcile(st0, filteredCallsigns, data) } :
                    /\ clients' = st.clients
                    /\ keyOrder' = st.keyOrder
                    /\ mapLayers' = st.mapLayers
                    /\ destroyed' = st.destroyed
                    /\ onlineCount' = Len(st.keyOrder)
                    /\ clientList' = SetClientList(st.clients, st.keyOrder)
                    /\ isInitialLoad' = FALSE
                    /\ threw' = FALSE
                    /\ lastOp' = Op("reload", {data[i].callsign : i \in 1..Len(data)}, <<>>)
           ELSE \E st \in { UpsertLoop(st0, filteredCallsigns, SubSeq(data, 1, at - 1)) } :
                    /\ clients' = st.clients
                    /\ keyOrder' = st.keyOrder
                    /\ mapLayers' = st.mapLayers
                    /\ destroyed' = st.destroyed
                    /\ threw' = TRUE
                    /\ lastOp' = Op("reloadThrew", {data[i].callsign : i \in 1..Len(data)}, <<>>)
                    /\ UNCHANGED <<onlineCount, clientList, isInitialLoad>>
    /\ inflight' = inflight - 1
    /\ UNCHANGED <<filteredCallsigns, ringSearchTerm, view, inRangeList>>

\* the "input" listener of #ring-search of the second class body
LegacyRingSearchInput(value) ==
    /\ ringSearchTerm' = ToLower(value)
    /\ mapLayers' = FilterRangeRings(clients, ringSearchTerm', mapLayers)
    /\ lastOp' = Op("input", {}, <<>>)
    /\ destroyed' = <<>>
    /\ threw' = FALSE
    /\ UNCHANGED <<clients, keyOrder, filteredCallsigns, isInitialLoad, view, inflight,
                   onlineCount, clientList, inRangeList>>

\* clientClicked of the second class body: client.position() is called on
\* whatever the lookup returned, a TypeError when that is undefined
LegacyClientClicked(callsign) ==
    /\ IF callsign \notin DOMAIN clients
       THEN /\ threw' = TRUE
            /\ UNCHANGED view
       ELSE /\ threw' = FALSE
            /\ view' = [center |-> ClientPosition(clients[callsign]),
                        zoom |-> IF view.zoom < MinClickZoom THEN MinClickZoom
                                 ELSE view.zoom]
    /\ lastOp' = Op("click", {}, callsign)
    /\ destroyed' = <<>>
    /\ UNCHANGED <<clients, keyOrder, filteredCallsigns, ringSearchTerm, isInitialLoad,
                   mapLayers, inflight, onlineCount, clientList, inRangeList>>

NextLegacy ==
    \/ Tick /\ UNCHANGED <<newest, running>>
    \/ \E data \in Snapshots : LegacyReloadMapData(data) /\ UNCHANGED <<newest, running>>
    \/ ReloadFailed /\ UNCHANGED <<newest, running>>
    \/ \E value \in SearchInputs : LegacyRingSearchInput(value) /\ UNCHANGED <<newest, running>>
    \/ \E callsign \in Callsigns : LegacyClientClicked(callsign) /\ UNCHANGED <<newest, running>>

SpecLegacy == Init /\ [][NextLegacy]_vars

\* ---------------------------------------------------------------------------
\* Snapshots with malformed records, handled by the first class body.

MaxMalformedLen == 2

\* a record whose callsign is the empty string, and one of a kind no Client
\* variant exists for
MalformedRecords ==
    { ClientData(<<>>, "PILOT", 0, <<Ring(0, 1)>>),
      ClientData(csB,  "UFO",   1, <<>>) }

\* the bodies that hold a malformed record, again one record per callsign
MalformedSnapshots ==
    { data \in UNION { [1..n -> Records \cup MalformedRecords] : n \in 1..MaxMalformedLen } :
        /\ \E i \in DOMAIN data : data[i] \in MalformedRecords
        /\ \A i, j \in DOMAIN data : data[i].callsign = data[j].callsign => i = j }

NextMalformed ==
    \/ Tick /\ UNCHANGED <<newest, running>>
    \/ \E data \in MalformedSnapshots : ReloadMapData(data) /\ UNCHANGED <<newest, running>>
    \/ ReloadFailed /\ UNCHANGED <<newest, running>>
    \/ \E value \in SearchInputs : RingSearchInput(value) /\ UNCHANGED <<newest, running>>
    \/ \E callsign \in Callsigns \cup {<<>>} : ClientClicked(callsign) /\ UNCHANGED <<newest, running>>

SpecMalformed == Init /\ [][NextMalformed]_vars

\* ---------------------------------------------------------------------------
\* The first class body with the order of the requests followed: a response
\* that is processed belongs either to the reloadMapData call started last or
\* to one started before it. Nothing in reloadMapData tells them apart.

\* a call is started: it is the newest, and its response is to come
StartNewest == newest' = [done |-> FALSE, ok |-> FALSE, ids |-> {}]

\* a pending call of the given age exists
Pending(isNewest) ==
    IF isNewest THEN inflight > 0 /\ ~newest.done
    ELSE inflight > (IF newest.done THEN 0 ELSE 1)

\* the response of a call is processed, with the identifiers it carried
Resolve(isNewest, ok, ids) ==
    newest' = IF isNewest THEN [done |-> TRUE, ok |-> ok, ids |-> ids] ELSE newest

NextOrder ==
    \/ Tick /\ StartNewest /\ UNCHANGED running
    \/ \E data \in Snapshots, isNewest \in BOOLEAN :
           /\ Pending(isNewest)
           /\ ReloadMapData(data)
           /\ Resolve(isNewest, TRUE, {data[i].callsign : i \in 1..Len(data)})
           /\ UNCHANGED running
    \/ \E isNewest \in BOOLEAN :
           /\ Pending(isNewest)
           /\ ReloadFailed
           /\ Resolve(isNewest, FALSE, {})
           /\ UNCHANGED running
    \/ \E value \in SearchInputs : RingSearchInput(value) /\ UNCHANGED <<newest, running>>
    \/ \E callsign \in Callsigns : ClientClicked(callsign) /\ UNCHANGED <<newest, running>>

SpecOrder == Init /\ [][NextOrder]_vars

\* ---------------------------------------------------------------------------
\* The first class body with reloadMapData taken statement by statement from
\* the resolution of its awaits on: the loop of upserts, removeClients, and the
\* three display updates. None of the statements after line 107 awaits, so the
\* event loop dispatches no listener, timer or promise continuation before the
\* last of them has run.

\* the event loop dispatches as if reloadMapData awaited between its loop and
\* removeClients
DispatchableAtAwait == running.pc \in {"idle", "upserted"}

\* the event loop may dispatch a handler: no reloadMapData call is between the
\* resolution of its awaits and its end
Dispatchable == running.pc = "idle"

\* lines 109-118: the loop of upserts of the call whose awaits have resolved
ReloadUpserts(data) ==
    /\ Dispatchable
    /\ inflight > 0
    /\ LET st0 == Registry(clients, keyOrder, mapLayers, <<>>)
           at == ThrowIndex(st0, filteredCallsigns, data, 1)
           upTo == IF at = 0 THEN Len(data) ELSE at - 1
       IN  \E st \in { UpsertLoop(st0, filteredCallsigns, SubSeq(data, 1, upTo)) } :
               /\ clients' = st.clients
               /\ keyOrder' = st.keyOrder
               /\ mapLayers' = st.mapLayers
               /\ destroyed' = st.destroyed
               /\ threw' = (at # 0)
               /\ running' = IF at = 0 THEN [pc |-> "upserted", data |-> data]
                             ELSE [pc |-> "idle", data |-> <<>>]
               /\ lastOp' = Op(IF at = 0 THEN "reloadUpserts" ELSE "reloadThrew",
                               {data[i].callsign : i \in 1..Len(data)}, <<>>)
    /\ inflight' = inflight - 1
    /\ UNCHANGED <<filteredCallsigns, ringSearchTerm, isInitialLoad, view, onlineCount,
                   clientList, inRangeList>>

\* line 120: removeClients(findDisconnectedClients(data.clients))
ReloadRemovals ==
    /\ running.pc = "upserted"
    /\ LET st0 == Registry(clients, keyOrder, mapLayers, <<>>)
       IN  \E st \in { RemoveClients(st0, FindDisconnectedClients(st0, running.data)) } :
               /\ clients' = st.clients
               /\ keyOrder' = st.keyOrder
               /\ mapLayers' = st.mapLayers
               /\ destroyed' = st.destroyed
    /\ running' = [running EXCEPT !.pc = "removed"]
    /\ lastOp' = [lastOp EXCEPT !.kind = "reloadRemovals"]
    /\ UNCHANGED <<filteredCallsigns, ringSearchTerm, isInitialLoad, view, inflight,
                   onlineCount, clientList, inRangeList, threw>>

\* lines 122-124: setClientsOnline, setClientList, setInRangeList
ReloadDisplays ==
    /\ running.pc = "removed"
    /\ onlineCount' = Len(keyOrder)
    /\ clientList' = SetClientList(clients, keyOrder)
    /\ inRangeList' = SetInRangeList(clients, keyOrder, ringSearchTerm)
    /\ isInitialLoad' = FALSE
    /\ running' = [pc |-> "idle", data |-> <<>>]
    /\ lastOp' = [lastOp EXCEPT !.kind = "reload"]
    /\ UNCHANGED <<clients, keyOrder, filteredCallsigns, ringSearchTerm, mapLayers, view,
                   inflight, destroyed, threw>>

NextSteps ==
    \/ Dispatchable /\ Tick /\ UNCHANGED <<newest, running>>
    \/ \E data \in Snapshots : ReloadUpserts(data) /\ UNCHANGED newest
    \/ ReloadRemovals /\ UNCHANGED newest
    \/ ReloadDisplays /\ UNCHANGED newest
    \/ Dispatchable /\ ReloadFailed /\ UNCHANGED <<newest, running>>
    \/ \E value \in SearchInputs :
           Dispatchable /\ RingSearchInput(value) /\ UNCHANGED <<newest, running>>
    \/ \E callsign \in Callsigns :
           Dispatchable /\ ClientClicked(callsign) /\ UNCHANGED <<newest, running>>

SpecSteps == Init /\ [][NextSteps]_vars

\* C11: right after clientClicked on a callsign of the Registry, the search term
\* is that callsign in lower case, every ring of every Entity is on the map
\* exactly if its identifier contains that term case-insensitively, and the
\* subjects of the range report are exactly the pilots whose identifier does.
C11_SelectSetsTermAndRefreshes ==
    (lastOp.kind = "click" /\ lastOp.callsign \in DOMAIN clients) =>
        /\ ringSearchTerm = ToLower(lastOp.callsign)
        /\ \A k \in DOMAIN clients :
               IF Includes(ToLower(k), ringSearchTerm)
               THEN RingLayers(clients[k]) \subseteq mapLayers
               ELSE RingLayers(clients[k]) \cap mapLayers = {}
        /\ { inRangeList[i].pilot : i \in DOMAIN inRangeList }
               = { k \in DOMAIN clients :
                       /\ clients[k].clientData.type = "PILOT"
                       /\ Includes(ToLower(k), ringSearchTerm) }

\* a click on a pilot of the Registry has hidden the rings of another Entity
\* and left another pilot out of the report, while the clicked pilot and a
\* pilot whose identifier contains the clicked one are shown and reported
C11_Witness ==
    /\ lastOp.kind = "click"
    /\ lastOp.callsign = csA
    /\ {csA, csB, csAB} = DOMAIN clients
    /\ RingsOnMap(clients[csA]) # {}
    /\ RingsOnMap(clients[csAB]) # {}
    /\ RingLayers(clients[csB]) # {}
    /\ RingsOnMap(clients[csB]) = {}
    /\ Len(inRangeList) = 2

\* C12: clientClicked on a callsign that is not in the Registry raises no
\* exception and leaves the search term, the rings on the map, the range
\* report and the Registry as they were.
C12_UnknownSelectionIsNoOp ==
    [][(lastOp'.kind = "click" /\ lastOp'.callsign \notin DOMAIN clients) =>
           /\ ~threw'
           /\ UNCHANGED <<ringSearchTerm, mapLayers, inRangeList, clients, keyOrder>>]_vars

\* C13: a record whose identifier is empty never becomes a key of the Registry.
C13_EmptyIdentifierDropped == <<>> \notin DOMAIN clients

\* C14: when the construction of the Entity of one record has failed during a
\* reconcile, the reconcile has still upserted the other records and removed
\* the Entities absent from the snapshot: the keys of the Registry are the
\* filtered identifiers of the snapshot without the failed one (whatever
\* became of a record with an empty identifier).
C14_FailureDoesNotAbortReconcile ==
    lastOp.kind = "reloadThrew" =>
        \E failed \in lastOp.ids :
            DOMAIN clients \ {<<>>}
                = FilteredIds(lastOp.ids \ {failed}, filteredCallsigns) \ {<<>>}

\* C15: in every reachable state every marker and every ring on the map is
\* owned by an Entity that is in the Registry: removeClient has taken the
\* layers of a removed Entity off the map when its key is deleted.
C15_SurfaceBelongsToRegistry ==
    \A layer \in mapLayers :
        \E k \in DOMAIN clients :
            layer \in MarkerLayers(clients[k]) \cup RingLayers(clients[k])

\* a reload has removed an Entity that had a marker and a ring, none of its
\* layers is on the map, and the layers of the Entities that stay are
C15_Witness ==
    /\ lastOp.kind = "reload"
    /\ \E i \in DOMAIN destroyed :
           /\ destroyed[i][1] = csB
           /\ \A layer \in mapLayers : layer[1] # destroyed[i]
    /\ \E k \in DOMAIN clients : RingsOnMap(clients[k]) # {}

\* what destroy() called on the Entity under key k in the current state gives
DestroyedOnce(k) == ClientDestroy(clients[k], mapLayers)

\* C16: destroy is idempotent: called a second time on an Entity, it leaves
\* the Entity and the map exactly as the first call left them, the Entity
\* owning no marker and no ring and none of its layers being on the map.
C16_DestroyIdempotent ==
    \A k \in DOMAIN clients :
        LET once == DestroyedOnce(k)
            twice == ClientDestroy(once.client, once.layers)
        IN  /\ twice = once
            /\ once.client.markers = <<>>
            /\ once.client.rangeRings = <<>>
            /\ \A layer \in once.layers : layer[1] # clients[k].inst

\* an Entity with its marker and two rings on the map, next to another Entity
\* whose layers the destroy leaves there
C16_Witness ==
    \E k \in DOMAIN clients :
        /\ MarkerLayers(clients[k]) # {}
        /\ MarkerLayers(clients[k]) \subseteq mapLayers
        /\ Cardinality(RingsOnMap(clients[k])) = 2
        /\ DestroyedOnce(k).layers # {}
        /\ DestroyedOnce(k).layers # mapLayers

\* the radii of the rings of the Entity under key k
Radii(k) == { clients[k].rangeRings[r].radius : r \in DOMAIN clients[k].rangeRings }

\* C17: the in-range relation is one-sided: whenever pilot b is inside a ring
\* of pilot a while a is inside no ring of b, findPilotsInRange(a) holds b and
\* findPilotsInRange(b) does not hold a (C17_Witness: such a pair, with rings
\* of different radii, is reachable).
C17_InRangeNotSymmetric ==
    \A a, b \in DOMAIN clients :
        ( /\ a # b
          /\ clients[a].clientData.type = "PILOT"
          /\ clients[b].clientData.type = "PILOT"
          /\ RingsAround(a, b) # {}
          /\ RingsAround(b, a) = {} ) =>
            /\ b \in Range(FindPilotsInRange(clients, keyOrder, clients[a]))
            /\ a \notin Range(FindPilotsInRange(clients, keyOrder, clients[b]))

\* two pilots of the Registry, each with a ring, of different radii, one in
\* range of the other and not the other way round
C17_Witness ==
    \E a, b \in DOMAIN clients :
        /\ clients[a].clientData.type = "PILOT"
        /\ clients[b].clientData.type = "PILOT"
        /\ Radii(a) # {}
        /\ Radii(b) # {}
        /\ Radii(a) \cap Radii(b) = {}
        /\ b \in Range(FindPilotsInRange(clients, keyOrder, clients[a]))
        /\ a \notin Range(FindPilotsInRange(clients, keyOrder, clients[b]))

C19_ReconcileAndFilterIndependent ==
    [][ /\ filteredCallsigns' = filteredCallsigns
        /\ lastOp'.kind \in {"reload", "reloadFailed", "tick"} =>
               ringSearchTerm' = ringSearchTerm
        /\ lastOp'.kind \in {"input", "click"} =>
               /\ DOMAIN clients' = DOMAIN clients
               /\ keyOrder' = keyOrder
               /\ \A k \in DOMAIN clients : clients'[k].inst = clients[k].inst ]_vars

\* a reload has changed a non-empty Registry under a non-empty search term and
\* a non-empty allow-list
C19_Witness ==
    /\ lastOp.kind = "reload"
    /\ ringSearchTerm # <<>>
    /\ filteredCallsigns # <<>>
    /\ clients # <<>>
    /\ destroyed # <<>>

\* C20: once every response has been processed, the keys of the Registry are
\* the filtered identifiers of the snapshot returned to the refresh that was
\* started last: a response to an earlier request that arrives after it does
\* not overwrite its result.
C20_LastStartedRefreshWins ==
    (inflight = 0 /\ newest.done /\ newest.ok) =>
        DOMAIN clients = FilteredIds(newest.ids, filteredCallsigns)

\* the kinds of step that begin a handler: a timer tick, the continuation of a
\* reloadMapData call after its awaits, an input, a click
HandlerStarts == {"tick", "reloadUpserts", "reloadThrew", "reloadFailed", "input", "click"}

====
